---- MODULE Spec2Model ----
(***************************************************************************)
(* A model of the tile server's HTTP front end (src/src/http_server.rs):   *)
(* the listener of run_server with its round-robin dispatch over per-worker *)
(* channels, the worker threads, HttpServer::handle_connection and          *)
(* try_handle_connection, serve_data, and the two parsers                   *)
(* extract_path_from_request and extract_tile_from_path.                    *)
(*                                                                         *)
(* Strings are sequences of one-character strings, so that splitting,       *)
(* trimming, formatting and parsing are computed character by character.    *)
(***************************************************************************)
EXTENDS Integers, Sequences, FiniteSets, TLC

VARIABLES
    lpc,          \* listener position in run_server: "bind", "accept", "bind_failed", "panicked"
    thread_id,    \* run_server's round-robin index (0-based)
    sendersOpen,  \* TRUE while run_server still owns the senders vector
    queue,        \* queue[w]: the connections buffered in worker w's channel, oldest first
    wpc,          \* wpc[w]: position of worker w in its loop / in try_handle_connection
    cur,          \* cur[w]: the connection worker w is handling (0: none)
    wdata,        \* wdata[w]: the body worker w is about to serve
    lock,         \* holder of the perf_stats mutex (NoWorker: free)
    perfStats,    \* number of tiles recorded in the shared PerfStats aggregate
    perf,         \* cfg!(feature = "perf-stats")
    nAccepted,    \* successful accepts so far (the connections are 1..nAccepted)
    cstate,       \* cstate[c]: "unborn", "queued", "handling", "closed", "dropped", "lost"
    cin,          \* cin[c]: what the client sent, as the first read of the stream sees it
    cres,         \* cres[c]: how the handling of c ended (or "none")
    cout,         \* cout[c]: the bytes written to the connection
    dest,         \* dest[c]: the worker whose channel took c (NoWorker: none)
    started,      \* started[w]: the connections worker w received, in order
    logged,       \* number of "Error processing request" lines printed
    fphase,       \* parser harness: "idle", "req", "req_done", "tile", "tile_done", "path", "path_done"
    farg,         \* parser harness: the argument (a request line or a path)
    ftile,        \* parser harness: the tile the path was formatted from
    fsuffix,      \* parser harness: what was appended to the formatted tile
    fparts,       \* parser harness: the layout and segments the path was built from
    fret          \* parser harness: the value returned

vars == << lpc, thread_id, sendersOpen, queue, wpc, cur, wdata, lock, perfStats, perf,
           nAccepted, cstate, cin, cres, cout, dest, started, logged,
           fphase, farg, ftile, fsuffix, fparts, fret >>

srvvars == << lpc, thread_id, sendersOpen, queue, wpc, cur, wdata, lock, perfStats, perf,
              nAccepted, cstate, cin, cres, cout, dest, started, logged >>

fnvars == << fphase, farg, ftile, fsuffix, fparts, fret >>

-----------------------------------------------------------------------------
(* Bounds of the model. *)

\* Size of the worker pool (num_cpus::get() at run time).
NumWorkers == 2
\* Successful accepts explored.
MaxConns == 3
\* Tokens joined by single spaces into a request line.
MaxTokens == 4
\* Tile coordinates 0..MaxCoord are explored (and a few longer ones).
MaxCoord == 11
MaxBody == 11

\* crate::tile::MAX_ZOOM, imported by line 8; its value is set in crate::tile.
MAX_ZOOM == 18

Workers == 0 .. (NumWorkers - 1)
Conns == 1 .. MaxConns

-----------------------------------------------------------------------------
(* Strings. *)

Digits == << "0", "1", "2", "3", "4", "5", "6", "7", "8", "9" >>

IsDigit(c) == \E i \in 1..10 : Digits[i] = c

DigitVal(c) == (CHOOSE i \in 1..10 : Digits[i] = c) - 1

\* format!("{}", n) for an unsigned integer.
RECURSIVE ToDec(_)
ToDec(n) == IF n < 10 THEN << Digits[n + 1] >>
            ELSE Append(ToDec(n \div 10), Digits[(n % 10) + 1])

EndsWith(s, suffix) ==
    /\ Len(s) >= Len(suffix)
    /\ SubSeq(s, Len(s) - Len(suffix) + 1, Len(s)) = suffix

Reverse(s) == [ i \in 1..Len(s) |-> s[Len(s) + 1 - i] ]

Take(s, n) == SubSeq(s, 1, IF Len(s) < n THEN Len(s) ELSE n)

\* str::split(ch): the pieces between the occurrences of ch, empty pieces kept;
\* a string with n occurrences gives n + 1 pieces.
Split(s, ch) ==
    LET RECURSIVE go(_, _, _)
        go(i, tok, acc) ==
            IF i > Len(s) THEN Append(acc, tok)
            ELSE IF s[i] = ch THEN go(i + 1, << >>, Append(acc, tok))
            ELSE go(i + 1, Append(tok, s[i]), acc)
    IN go(1, << >>, << >>)

\* str::rsplit(ch): the same pieces, from the right.
RSplit(s, ch) == Reverse(Split(s, ch))

\* str::rfind(ch): the index of the last occurrence of ch (0: none).
RFind(s, ch) ==
    LET hits == { i \in 1..Len(s) : s[i] = ch }
    IN IF hits = {} THEN 0 ELSE CHOOSE i \in hits : \A j \in hits : j <= i

\* str::trim_end_matches(pat): pat removed from the end repeatedly.
RECURSIVE TrimEndMatches(_, _)
TrimEndMatches(s, pat) ==
    IF EndsWith(s, pat) THEN TrimEndMatches(SubSeq(s, 1, Len(s) - Len(pat)), pat)
    ELSE s

\* str::parse for an unsigned integer type: an optional '+' and at least one
\* decimal digit; -1 stands for Err. The inputs explored have at most six
\* digits, so the overflow check of the integer type is never the deciding one
\* (a zoom too large for its type is also larger than MAX_ZOOM).
ParseUInt(s) ==
    LET body == IF Len(s) > 1 /\ s[1] = "+" THEN SubSeq(s, 2, Len(s)) ELSE s
        RECURSIVE val(_)
        val(k) == IF k = 0 THEN 0 ELSE 10 * val(k - 1) + DigitVal(body[k])
    IN IF Len(body) = 0 \/ \E i \in 1..Len(body) : ~IsDigit(body[i])
       THEN -1
       ELSE val(Len(body))

Join(parts, sep) ==
    LET RECURSIVE go(_)
        go(k) == IF k = 0 THEN << >>
                 ELSE IF k = 1 THEN parts[1]
                 ELSE go(k - 1) \o sep \o parts[k]
    IN go(Len(parts))

sGET == << "G", "E", "T" >>
sHTTP11 == << "H", "T", "T", "P", "/", "1", ".", "1" >>
sHTTP10 == << "H", "T", "T", "P", "/", "1", ".", "0" >>
sPNG == << ".", "p", "n", "g" >>
sPerfStats == << "/", "p", "e", "r", "f", "_", "s", "t", "a", "t", "s" >>
sSlash == << "/" >>
sSpace == << " " >>
sStatusLine == << "H", "T", "T", "P", "/", "1", ".", "1", " ", "2", "0", "0", " ", "O", "K" >>
sContentType == << "C", "o", "n", "t", "e", "n", "t", "-", "T", "y", "p", "e", ":", " " >>
sContentLength == << "C", "o", "n", "t", "e", "n", "t", "-", "L", "e", "n", "g", "t", "h", ":", " " >>
sConnClose == << "C", "o", "n", "n", "e", "c", "t", "i", "o", "n", ":", " ", "c", "l", "o", "s", "e" >>
sCRLF == << "\r", "\n" >>
sTextHtml == << "t", "e", "x", "t", "/", "h", "t", "m", "l" >>
sImagePng == << "i", "m", "a", "g", "e", "/", "p", "n", "g" >>
sPOST == << "P", "O", "S", "T" >>
sGetLower == << "g", "e", "t" >>
sHTTP20 == << "H", "T", "T", "P", "/", "2", ".", "0" >>
sTilePath == << "/", "5", "/", "1", "0", "/", "1", "2", ".", "p", "n", "g" >>
sTilePathQ == << "/", "5", "/", "1", "0", "/", "1", "2", ".", "p", "n", "g", "?", "l", "=", "b" >>
sBadPath == << "/", "a", "/", "b", "/", "c", ".", "p", "n", "g" >>

-----------------------------------------------------------------------------
(* The parsers. *)

PathErr == [ ok |-> FALSE, path |-> << >> ]

\* A variant that does not check the method.
extract_path_any_method(first_line) ==
    LET tokens == Split(first_line, " ")
    IN IF Len(tokens) # 3 THEN PathErr
       ELSE IF tokens[3] # sHTTP11 /\ tokens[3] # sHTTP10 THEN PathErr
       ELSE [ ok |-> TRUE, path |-> tokens[2] ]

extract_path_from_request(first_line) ==
    LET tokens == Split(first_line, " ")
    IN IF Len(tokens) # 3 THEN PathErr
       ELSE IF tokens[1] # sGET THEN PathErr
       ELSE IF tokens[3] # sHTTP11 /\ tokens[3] # sHTTP10 THEN PathErr
       ELSE [ ok |-> TRUE, path |-> tokens[2] ]

NoTile == [ some |-> FALSE, zoom |-> 0, x |-> 0, y |-> 0 ]

SomeTile(z, x, y) == [ some |-> TRUE, zoom |-> z, x |-> x, y |-> y ]

\* A variant that forgets tokens.reverse().
extract_tile_no_reverse(path) ==
    LET pos == RFind(path, "?")
        real_path == IF pos > 0 THEN SubSeq(path, 1, pos - 1) ELSE path
        tokens == Take(RSplit(TrimEndMatches(real_path, sPNG), "/"), 3)
    IN IF Len(tokens) # 3 THEN NoTile
       ELSE LET z == ParseUInt(tokens[1])
                x == ParseUInt(tokens[2])
                y == ParseUInt(tokens[3])
            IN IF z >= 0 /\ x >= 0 /\ y >= 0 /\ z <= MAX_ZOOM
               THEN SomeTile(z, x, y)
               ELSE NoTile

\* A variant that does not compare the zoom with MAX_ZOOM.
extract_tile_any_zoom(path) ==
    LET pos == RFind(path, "?")
        real_path == IF pos > 0 THEN SubSeq(path, 1, pos - 1) ELSE path
        taken == Take(RSplit(TrimEndMatches(real_path, sPNG), "/"), 3)
    IN IF Len(taken) # 3 THEN NoTile
       ELSE LET tokens == Reverse(taken)
                z == ParseUInt(tokens[1])
                x == ParseUInt(tokens[2])
                y == ParseUInt(tokens[3])
            IN IF z >= 0 /\ x >= 0 /\ y >= 0 THEN SomeTile(z, x, y) ELSE NoTile

\* A variant that skips the empty segments before taking three.
extract_tile_skip_empty(path) ==
    LET pos == RFind(path, "?")
        real_path == IF pos > 0 THEN SubSeq(path, 1, pos - 1) ELSE path
        taken == Take(SelectSeq(RSplit(TrimEndMatches(real_path, sPNG), "/"),
                                LAMBDA t : t # << >>), 3)
    IN IF Len(taken) # 3 THEN NoTile
       ELSE LET tokens == Reverse(taken)
                z == ParseUInt(tokens[1])
                x == ParseUInt(tokens[2])
                y == ParseUInt(tokens[3])
            IN IF z >= 0 /\ x >= 0 /\ y >= 0 /\ z <= MAX_ZOOM
               THEN SomeTile(z, x, y)
               ELSE NoTile

\* A variant that strips the suffix once (strip_suffix).
extract_tile_strip_once(path) ==
    LET pos == RFind(path, "?")
        real_path == IF pos > 0 THEN SubSeq(path, 1, pos - 1) ELSE path
        stripped == IF EndsWith(real_path, sPNG)
                    THEN SubSeq(real_path, 1, Len(real_path) - Len(sPNG))
                    ELSE real_path
        taken == Take(RSplit(stripped, "/"), 3)
    IN IF Len(taken) # 3 THEN NoTile
       ELSE LET tokens == Reverse(taken)
                z == ParseUInt(tokens[1])
                x == ParseUInt(tokens[2])
                y == ParseUInt(tokens[3])
            IN IF z >= 0 /\ x >= 0 /\ y >= 0 /\ z <= MAX_ZOOM
               THEN SomeTile(z, x, y)
               ELSE NoTile

extract_tile_from_path(path) ==
    LET expected_token_count == 3
        pos == RFind(path, "?")
        real_path == IF pos > 0 THEN SubSeq(path, 1, pos - 1) ELSE path
        taken == Take(RSplit(TrimEndMatches(real_path, sPNG), "/"), expected_token_count)
    IN IF Len(taken) # expected_token_count THEN NoTile
       ELSE LET tokens == Reverse(taken)
                z == ParseUInt(tokens[1])
                x == ParseUInt(tokens[2])
                y == ParseUInt(tokens[3])
            IN IF z >= 0 /\ x >= 0 /\ y >= 0 /\ z <= MAX_ZOOM
               THEN SomeTile(z, x, y)
               ELSE NoTile

-----------------------------------------------------------------------------
(* The server: state after run_server has spawned the workers (lines 34-62). *)

\* An index outside the pool: no worker.
NoWorker == NumWorkers

\* What the first read of a connection can find: no line, or one line.
ServerLines ==
    { Join(<< sGET, sTilePathQ, sHTTP11 >>, sSpace),
      Join(<< sGET, sPerfStats, sHTTP10 >>, sSpace),
      Join(<< sGET, sBadPath, sHTTP11 >>, sSpace),
      Join(<< sPOST, sTilePath, sHTTP11 >>, sSpace) }

\* lines().next() gives None at the end of the stream and Some(Err) on an I/O
\* or encoding error; line 109 treats both alike, and so does "eof" here.
StreamInputs ==
    { [ kind |-> "eof", line |-> << >> ] }
        \cup { [ kind |-> "line", line |-> l ] : l \in ServerLines }

NoInput == [ kind |-> "none", line |-> << >> ]

\* What Drawer::draw_tile returns on success (an opaque byte buffer).
PngBodies == { << "p", "n", "g", "1" >> }

\* PerfStats::to_html: an opaque report of the aggregate.
to_html(stats) == << "<", "p", ">" >> \o ToDec(stats)

\* Bytes a failing write_all may have put on the wire before it failed.
PartialLens == { 0, 3 }

ServerInit ==
    /\ lpc = "bind"
    /\ thread_id = 0
    /\ sendersOpen = TRUE
    /\ queue = [ w \in Workers |-> << >> ]
    /\ wpc = [ w \in Workers |-> "recv" ]
    /\ cur = [ w \in Workers |-> 0 ]
    /\ wdata = [ w \in Workers |-> << >> ]
    /\ lock = NoWorker
    /\ perfStats = 0
    /\ nAccepted = 0
    /\ cstate = [ c \in Conns |-> "unborn" ]
    /\ cin = [ c \in Conns |-> NoInput ]
    /\ cres = [ c \in Conns |-> "none" ]
    /\ cout = [ c \in Conns |-> << >> ]
    /\ dest = [ c \in Conns |-> NoWorker ]
    /\ started = [ w \in Workers |-> << >> ]
    /\ logged = 0

NoParts == [ shape |-> "none", z |-> << >>, x |-> << >>, y |-> << >> ]

FnIdle ==
    /\ fphase = "idle"
    /\ farg = << >>
    /\ ftile = NoTile
    /\ fsuffix = << >>
    /\ fparts = NoParts
    /\ fret = 0

-----------------------------------------------------------------------------
(* serve_data and the routing of try_handle_connection. *)

\* A variant whose Content-Length counts the header's blank line too.
HeaderCountsBlankLine(content_type, n) ==
    Join(<< sStatusLine,
            sContentType \o content_type,
            sContentLength \o ToDec(n + Len(sCRLF)),
            sConnClose,
            << >>,
            << >> >>, sCRLF)

Header(content_type, n) ==
    Join(<< sStatusLine,
            sContentType \o content_type,
            sContentLength \o ToDec(n),
            sConnClose,
            << >>,
            << >> >>, sCRLF)

\* A variant that serves the report in every build.
RouteOfStatsAlways(input) ==
    IF input.kind # "line" THEN "read_error"
    ELSE LET p == extract_path_from_request(input.line)
         IN IF ~p.ok THEN "protocol_error"
            ELSE IF p.path = sPerfStats THEN "stats"
            ELSE IF ~extract_tile_from_path(p.path).some THEN "route_miss"
            ELSE "tile"

\* Lines 107-123: what try_handle_connection decides from the first read.
\* "read_error", "protocol_error" and "route_miss" are its bail!/? exits.
RouteOf(input) ==
    IF input.kind # "line" THEN "read_error"
    ELSE LET p == extract_path_from_request(input.line)
         IN IF ~p.ok THEN "protocol_error"
            ELSE IF perf /\ p.path = sPerfStats THEN "stats"
            ELSE IF ~extract_tile_from_path(p.path).some THEN "route_miss"
            ELSE "tile"

\* The tile a request line addresses (lines 112, 120).
TileOf(input) == extract_tile_from_path(extract_path_from_request(input.line).path)

\* The content type passed to serve_data (lines 116, 139).
ContentTypeOf(input) == IF RouteOf(input) = "stats" THEN sTextHtml ELSE sImagePng

ReceiverAlive(w) == wpc[w] \notin { "panicked", "exited" }

-----------------------------------------------------------------------------
(* The listener: run_server from the bind on (lines 64-72). *)

BindOk ==
    /\ lpc = "bind"
    /\ lpc' = "accept"
    /\ thread_id' = 0
    /\ UNCHANGED << sendersOpen, queue, wpc, cur, wdata, lock, perfStats, perf,
                    nAccepted, cstate, cin, cres, cout, dest, started,
                    logged, fnvars >>

\* A variant in which the senders outlive the return.
BindFailKeepSenders ==
    /\ lpc = "bind"
    /\ lpc' = "bind_failed"
    /\ UNCHANGED << thread_id, sendersOpen, queue, wpc, cur, wdata, lock, perfStats,
                    perf, nAccepted, cstate, cin, cres, cout, dest, started,
                    logged, fnvars >>

\* The ? of line 64 returns from run_server, which drops the senders.
BindFail ==
    /\ lpc = "bind"
    /\ lpc' = "bind_failed"
    /\ sendersOpen' = FALSE
    /\ UNCHANGED << thread_id, queue, wpc, cur, wdata, lock, perfStats, perf,
                    nAccepted, cstate, cin, cres, cout, dest, started,
                    logged, fnvars >>

\* incoming() yields Ok(stream): send it to senders[thread_id] and advance.
\* send fails when the receiver is gone; the unwrap then panics the listener,
\* the stream is dropped with the error and the senders with the stack frame.
AcceptOk ==
    /\ lpc = "accept"
    /\ nAccepted < MaxConns
    /\ LET c == nAccepted + 1
       IN /\ nAccepted' = c
          /\ IF ReceiverAlive(thread_id)
             THEN /\ queue' = [ queue EXCEPT ![thread_id] = Append(@, c) ]
                  /\ cstate' = [ cstate EXCEPT ![c] = "queued" ]
                  /\ dest' = [ dest EXCEPT ![c] = thread_id ]
                  /\ thread_id' = (thread_id + 1) % NumWorkers
                  /\ UNCHANGED << lpc, sendersOpen >>
             ELSE /\ lpc' = "panicked"
                  /\ sendersOpen' = FALSE
                  /\ cstate' = [ cstate EXCEPT ![c] = "lost" ]
                  /\ UNCHANGED << queue, dest, thread_id >>
    /\ UNCHANGED << wpc, cur, wdata, lock, perfStats, perf, cin, cres,
                    cout, started, logged, fnvars >>

\* incoming() yields Err: the if let of line 68 skips it, and nothing changes.
AcceptErr ==
    /\ lpc = "accept"
    /\ UNCHANGED vars

-----------------------------------------------------------------------------
(* The workers: the loop of lines 58-60 and the handler of lines 90-162. *)

\* receiver.recv() can return a connection: worker w is in its loop and its own
\* channel is not empty. No other worker or channel is involved.
RecvReady(w) == wpc[w] = "recv" /\ queue[w] # << >>

\* lock() can return: the mutex is free.
LockReady(w) == wpc[w] \in { "stats_lock", "finish_lock" } /\ lock = NoWorker

\* A variant that takes the newest connection of the queue.
RecvLast(w) ==
    /\ RecvReady(w)
    /\ LET c == queue[w][Len(queue[w])]
       IN /\ cur' = [ cur EXCEPT ![w] = c ]
          /\ cstate' = [ cstate EXCEPT ![c] = "handling" ]
          /\ started' = [ started EXCEPT ![w] = Append(@, c) ]
    /\ queue' = [ queue EXCEPT ![w] = SubSeq(@, 1, Len(@) - 1) ]
    /\ wpc' = [ wpc EXCEPT ![w] = "read" ]
    /\ UNCHANGED << lpc, thread_id, sendersOpen, wdata, lock, perfStats, perf,
                    nAccepted, cin, cres, cout, dest, logged, fnvars >>

\* A variant that leaves the received connection in the channel.
RecvKeep(w) ==
    /\ RecvReady(w)
    /\ LET c == Head(queue[w])
       IN /\ cur' = [ cur EXCEPT ![w] = c ]
          /\ cstate' = [ cstate EXCEPT ![c] = "handling" ]
          /\ started' = [ started EXCEPT ![w] = Append(@, c) ]
    /\ wpc' = [ wpc EXCEPT ![w] = "read" ]
    /\ UNCHANGED << lpc, thread_id, sendersOpen, queue, wdata, lock, perfStats, perf,
                    nAccepted, cin, cres, cout, dest, logged, fnvars >>

\* receiver.recv() returns Ok(stream): the oldest connection of the channel.
Recv(w) ==
    /\ RecvReady(w)
    /\ LET c == Head(queue[w])
       IN /\ cur' = [ cur EXCEPT ![w] = c ]
          /\ cstate' = [ cstate EXCEPT ![c] = "handling" ]
          /\ started' = [ started EXCEPT ![w] = Append(@, c) ]
    /\ queue' = [ queue EXCEPT ![w] = Tail(@) ]
    /\ wpc' = [ wpc EXCEPT ![w] = "read" ]
    /\ UNCHANGED << lpc, thread_id, sendersOpen, wdata, lock, perfStats, perf,
                    nAccepted, cin, cres, cout, dest, logged, fnvars >>

\* receiver.recv() returns Err: the channel is empty and its sender is gone.
RecvClosed(w) ==
    /\ wpc[w] = "recv"
    /\ queue[w] = << >>
    /\ ~sendersOpen
    /\ wpc' = [ wpc EXCEPT ![w] = "exited" ]
    /\ UNCHANGED << lpc, thread_id, sendersOpen, queue, cur, wdata, lock, perfStats,
                    perf, nAccepted, cstate, cin, cres, cout, dest,
                    started, logged, fnvars >>

\* A variant whose error branch answers the client.
FailWithStatus(w, kind) ==
    /\ cres' = [ cres EXCEPT ![cur[w]] = kind ]
    /\ cstate' = [ cstate EXCEPT ![cur[w]] = "closed" ]
    /\ cout' = [ cout EXCEPT ![cur[w]] =
                   << "H", "T", "T", "P", "/", "1", ".", "1", " ", "4", "0", "4" >> ]
    /\ logged' = logged + 1
    /\ wpc' = [ wpc EXCEPT ![w] = "recv" ]
    /\ cur' = [ cur EXCEPT ![w] = 0 ]
    /\ UNCHANGED << wdata, lock, perfStats >>

\* A variant whose error branch records the request in the aggregate.
FailCounted(w, kind) ==
    /\ cres' = [ cres EXCEPT ![cur[w]] = kind ]
    /\ cstate' = [ cstate EXCEPT ![cur[w]] = "closed" ]
    /\ logged' = logged + 1
    /\ wpc' = [ wpc EXCEPT ![w] = "recv" ]
    /\ cur' = [ cur EXCEPT ![w] = 0 ]
    /\ perfStats' = perfStats + 1
    /\ UNCHANGED << wdata, lock, cout >>

\* try_handle_connection returns Err (lines 109, 112, 122): the stream is
\* dropped, handle_connection prints one line (lines 94-100) and returns.
Fail(w, kind) ==
    /\ cres' = [ cres EXCEPT ![cur[w]] = kind ]
    /\ cstate' = [ cstate EXCEPT ![cur[w]] = "closed" ]
    /\ logged' = logged + 1
    /\ wpc' = [ wpc EXCEPT ![w] = "recv" ]
    /\ cur' = [ cur EXCEPT ![w] = 0 ]
    /\ UNCHANGED << wdata, lock, perfStats, cout >>

\* Lines 105-127: read the first line, parse it, route it.
ReadAndRoute(w) ==
    /\ wpc[w] = "read"
    /\ \E input \in StreamInputs :
          /\ cin' = [ cin EXCEPT ![cur[w]] = input ]
          /\ \/ /\ RouteOf(input) \in { "read_error", "protocol_error", "route_miss" }
                /\ Fail(w, RouteOf(input))
             \/ /\ RouteOf(input) \in { "stats", "tile" }
                /\ wpc' = [ wpc EXCEPT ![w] =
                              IF RouteOf(input) = "stats" THEN "stats_lock" ELSE "lookup" ]
                /\ UNCHANGED << cur, wdata, lock, perfStats, cstate, cres, cout, logged >>
    /\ UNCHANGED << lpc, thread_id, sendersOpen, queue, perf, nAccepted,
                    dest, started, fnvars >>

\* Lines 129-133: get_entities_in_tile_with_neighbors, then draw_tile returns Ok.
RenderOk(w) ==
    /\ wpc[w] = "lookup"
    /\ \E png \in PngBodies : wdata' = [ wdata EXCEPT ![w] = png ]
    /\ wpc' = [ wpc EXCEPT ![w] = IF perf THEN "finish_lock" ELSE "write_header" ]
    /\ UNCHANGED << lpc, thread_id, sendersOpen, queue, cur, lock, perfStats, perf,
                    nAccepted, cstate, cin, cres, cout, dest, started,
                    logged, fnvars >>

\* Lines 129-133, draw_tile returns Err: the unwrap panics the worker thread. The
\* unwinding drops the stream and the receiver, and with the receiver every
\* connection still buffered in the channel.
RenderErr(w) ==
    /\ wpc[w] = "lookup"
    /\ wpc' = [ wpc EXCEPT ![w] = "panicked" ]
    /\ cur' = [ cur EXCEPT ![w] = 0 ]
    /\ cres' = [ cres EXCEPT ![cur[w]] = "render_panic" ]
    /\ cstate' = [ c \in Conns |->
                     IF c = cur[w] THEN "closed"
                     ELSE IF \E i \in 1..Len(queue[w]) : queue[w][i] = c THEN "dropped"
                     ELSE cstate[c] ]
    /\ queue' = [ queue EXCEPT ![w] = << >> ]
    /\ UNCHANGED << lpc, thread_id, sendersOpen, wdata, lock, perfStats, perf,
                    nAccepted, cin, cout, dest, started, logged, fnvars >>

\* self.perf_stats.lock() of lines 115 and 136.
Lock(w) ==
    /\ LockReady(w)
    /\ lock' = w
    /\ wpc' = [ wpc EXCEPT ![w] = IF wpc[w] = "stats_lock" THEN "stats_locked"
                                  ELSE "finish_locked" ]
    /\ UNCHANGED << lpc, thread_id, sendersOpen, queue, cur, wdata, perfStats, perf,
                    nAccepted, cstate, cin, cres, cout, dest, started,
                    logged, fnvars >>

\* A variant that keeps the guard alive across serve_data.
ToHtmlKeepGuard(w) ==
    /\ wpc[w] = "stats_locked"
    /\ wdata' = [ wdata EXCEPT ![w] = to_html(perfStats) ]
    /\ wpc' = [ wpc EXCEPT ![w] = "write_header" ]
    /\ UNCHANGED << lpc, thread_id, sendersOpen, queue, cur, lock, perfStats, perf,
                    nAccepted, cstate, cin, cres, cout, dest, started,
                    logged, fnvars >>

\* A variant that records the report request in the aggregate.
ToHtmlCounted(w) ==
    /\ wpc[w] = "stats_locked"
    /\ wdata' = [ wdata EXCEPT ![w] = to_html(perfStats) ]
    /\ perfStats' = perfStats + 1
    /\ lock' = NoWorker
    /\ wpc' = [ wpc EXCEPT ![w] = "write_header" ]
    /\ UNCHANGED << lpc, thread_id, sendersOpen, queue, cur, perf,
                    nAccepted, cstate, cin, cres, cout, dest, started,
                    logged, fnvars >>

\* Line 115: to_html under the lock; the guard is a temporary of the statement.
ToHtml(w) ==
    /\ wpc[w] = "stats_locked"
    /\ wdata' = [ wdata EXCEPT ![w] = to_html(perfStats) ]
    /\ lock' = NoWorker
    /\ wpc' = [ wpc EXCEPT ![w] = "write_header" ]
    /\ UNCHANGED << lpc, thread_id, sendersOpen, queue, cur, perfStats, perf,
                    nAccepted, cstate, cin, cres, cout, dest, started,
                    logged, fnvars >>

\* A variant that keeps the guard alive across serve_data.
FinishTileKeepGuard(w) ==
    /\ wpc[w] = "finish_locked"
    /\ perfStats' = perfStats + 1
    /\ wpc' = [ wpc EXCEPT ![w] = "write_header" ]
    /\ UNCHANGED << lpc, thread_id, sendersOpen, queue, cur, wdata, lock, perf,
                    nAccepted, cstate, cin, cres, cout, dest, started, logged,
                    fnvars >>

\* Line 136: finish_tile under the lock.
FinishTile(w) ==
    /\ wpc[w] = "finish_locked"
    /\ perfStats' = perfStats + 1
    /\ lock' = NoWorker
    /\ wpc' = [ wpc EXCEPT ![w] = "write_header" ]
    /\ UNCHANGED << lpc, thread_id, sendersOpen, queue, cur, wdata, perf, nAccepted,
                    cstate, cin, cres, cout, dest, started, logged,
                    fnvars >>

\* serve_data has returned and try_handle_connection returns Ok (lines 117, 141).
Served(w) ==
    /\ wdata' = [ wdata EXCEPT ![w] = << >> ]
    /\ cres' = [ cres EXCEPT ![cur[w]] = "ok" ]
    /\ cstate' = [ cstate EXCEPT ![cur[w]] = "closed" ]
    /\ wpc' = [ wpc EXCEPT ![w] = "recv" ]
    /\ cur' = [ cur EXCEPT ![w] = 0 ]

\* Line 159, write_all(header) succeeds.
WriteHeaderOk(w) ==
    /\ wpc[w] = "write_header"
    /\ cout' = [ cout EXCEPT ![cur[w]] =
                   Header(ContentTypeOf(cin[cur[w]]), Len(wdata[w])) ]
    /\ wpc' = [ wpc EXCEPT ![w] = "write_body" ]
    /\ UNCHANGED << lpc, thread_id, sendersOpen, queue, cur, wdata, lock, perfStats,
                    perf, nAccepted, cstate, cin, cres, dest, started,
                    logged, fnvars >>

\* A variant that returns the header's write error to the caller, which logs it.
WriteHeaderErrPropagated(w) ==
    /\ wpc[w] = "write_header"
    /\ \E n \in PartialLens :
          cout' = [ cout EXCEPT ![cur[w]] =
                      Take(Header(ContentTypeOf(cin[cur[w]]), Len(wdata[w])), n) ]
    /\ wdata' = [ wdata EXCEPT ![w] = << >> ]
    /\ cres' = [ cres EXCEPT ![cur[w]] = "write_error" ]
    /\ cstate' = [ cstate EXCEPT ![cur[w]] = "closed" ]
    /\ logged' = logged + 1
    /\ wpc' = [ wpc EXCEPT ![w] = "recv" ]
    /\ cur' = [ cur EXCEPT ![w] = 0 ]
    /\ UNCHANGED << lpc, thread_id, sendersOpen, queue, lock, perfStats, perf,
                    nAccepted, cin, dest, started, fnvars >>

\* Line 159, write_all(header) fails, after some of the bytes or none.
WriteHeaderErr(w) ==
    /\ wpc[w] = "write_header"
    /\ \E n \in PartialLens :
          cout' = [ cout EXCEPT ![cur[w]] =
                      Take(Header(ContentTypeOf(cin[cur[w]]), Len(wdata[w])), n) ]
    /\ Served(w)
    /\ UNCHANGED << lpc, thread_id, sendersOpen, queue, lock, perfStats, perf,
                    nAccepted, cin, dest, started, logged, fnvars >>

\* Line 160, write_all(data) succeeds.
WriteBodyOk(w) ==
    /\ wpc[w] = "write_body"
    /\ cout' = [ cout EXCEPT ![cur[w]] = @ \o wdata[w] ]
    /\ Served(w)
    /\ UNCHANGED << lpc, thread_id, sendersOpen, queue, lock, perfStats, perf,
                    nAccepted, cin, dest, started, logged, fnvars >>

\* Line 160, write_all(data) fails; the result is discarded.
WriteBodyErr(w) ==
    /\ wpc[w] = "write_body"
    /\ \E n \in { m \in PartialLens : m < Len(wdata[w]) } :
          cout' = [ cout EXCEPT ![cur[w]] = @ \o Take(wdata[w], n) ]
    /\ Served(w)
    /\ UNCHANGED << lpc, thread_id, sendersOpen, queue, lock, perfStats, perf,
                    nAccepted, cin, dest, started, logged, fnvars >>

WorkerStep(w) ==
    \/ Recv(w)
    \/ RecvClosed(w)
    \/ ReadAndRoute(w)
    \/ RenderOk(w)
    \/ RenderErr(w)
    \/ Lock(w)
    \/ ToHtml(w)
    \/ FinishTile(w)
    \/ WriteHeaderOk(w)
    \/ WriteHeaderErr(w)
    \/ WriteBodyOk(w)
    \/ WriteBodyErr(w)

Init ==
    /\ ServerInit
    /\ perf \in BOOLEAN
    /\ FnIdle

Next ==
    \/ BindOk
    \/ BindFail
    \/ AcceptOk
    \/ AcceptErr
    \/ \E w \in Workers : Recv(w)
    \/ \E w \in Workers : RecvClosed(w)
    \/ \E w \in Workers : ReadAndRoute(w)
    \/ \E w \in Workers : RenderOk(w)
    \/ \E w \in Workers : RenderErr(w)
    \/ \E w \in Workers : Lock(w)
    \/ \E w \in Workers : ToHtml(w)
    \/ \E w \in Workers : FinishTile(w)
    \/ \E w \in Workers : WriteHeaderOk(w)
    \/ \E w \in Workers : WriteHeaderErr(w)
    \/ \E w \in Workers : WriteBodyOk(w)
    \/ \E w \in Workers : WriteBodyErr(w)

Spec == Init /\ [][Next]_vars

-----------------------------------------------------------------------------
(* The parser harness: one call of a parser on an argument of a bounded set. *)

ReqTokens ==
    { sGET, sGetLower, sPOST, << >>, sHTTP11, sHTTP10, sHTTP20, sTilePathQ, sPerfStats }

ReqLines ==
    { Join(ts, sSpace) : ts \in UNION { [ 1..k -> ReqTokens ] : k \in 1..MaxTokens } }

Coords == (0 .. MaxCoord) \cup { 100, 65535, 999999 }

Tiles == { SomeTile(z, x, y) : z \in 0 .. (MAX_ZOOM + 1), x \in Coords, y \in Coords }

\* "/z/x/y.png"
FormatTile(t) ==
    sSlash \o ToDec(t.zoom) \o sSlash \o ToDec(t.x) \o sSlash \o ToDec(t.y) \o sPNG

QueryStrings ==
    { << >>, << "a" >>, << "l", "=", "b" >>, << "a", "/", "7" >>, << "/" >>,
      << "a", "?", "b" >>, << "?" >>, << "1", "?", "/", "2" >> }

Suffixes == { << >> } \cup { << "?" >> \o q : q \in QueryStrings }

InitReq ==
    /\ ServerInit
    /\ perf = FALSE
    /\ fphase = "req"
    /\ farg \in ReqLines
    /\ ftile = NoTile
    /\ fsuffix = << >>
    /\ fparts = NoParts
    /\ fret = 0

CallExtractPath ==
    /\ fphase = "req"
    /\ fret' = extract_path_from_request(farg)
    /\ fphase' = "req_done"
    /\ UNCHANGED << srvvars, farg, ftile, fsuffix, fparts >>

NextReq == CallExtractPath

SpecReq == InitReq /\ [][NextReq]_vars

InitTile ==
    /\ ServerInit
    /\ perf = FALSE
    /\ fphase = "tile"
    /\ ftile \in Tiles
    /\ fsuffix \in Suffixes
    /\ farg = FormatTile(ftile) \o fsuffix
    /\ fparts = NoParts
    /\ fret = 0

CallExtractTile ==
    /\ fphase = "tile"
    /\ fret' = extract_tile_from_path(farg)
    /\ fphase' = "tile_done"
    /\ UNCHANGED << srvvars, farg, ftile, fsuffix, fparts >>

NextTile == CallExtractTile

SpecTile == InitTile /\ [][NextTile]_vars

\* Paths built from three segments in several layouts.
Shapes ==
    { "plain", "noext", "prefix", "nolead", "two", "trailing", "doubled", "pngpng" }

ZSegs ==
    { << "0" >>, << "5" >>, << "1", "8" >>, << "1", "9" >>, << "2", "5", "6" >>,
      << "a" >>, << >>, << "-", "1" >>, << "+", "5" >>, << "0", "5" >> }

XSegs == { << "1", "0" >>, << "0" >>, << "4", "0" >>, << "b" >> }

YSegs == { << "1", "2" >>, << "7", "7", "7" >>, << "c" >> }

sTilesPrefix == << "/", "t", "i", "l", "e", "s", "/", "v", "1" >>

BuildPath(parts) ==
    LET z == parts.z
        x == parts.x
        y == parts.y
    IN CASE parts.shape = "plain"    -> sSlash \o z \o sSlash \o x \o sSlash \o y \o sPNG
         [] parts.shape = "noext"    -> sSlash \o z \o sSlash \o x \o sSlash \o y
         [] parts.shape = "prefix"   ->
                sTilesPrefix \o sSlash \o z \o sSlash \o x \o sSlash \o y \o sPNG
         [] parts.shape = "nolead"   -> z \o sSlash \o x \o sSlash \o y \o sPNG
         [] parts.shape = "two"      -> sSlash \o x \o sSlash \o y \o sPNG
         [] parts.shape = "trailing" -> sSlash \o z \o sSlash \o x \o sSlash \o y \o sSlash
         [] parts.shape = "doubled"  ->
                sSlash \o z \o sSlash \o sSlash \o x \o sSlash \o y \o sPNG
         [] parts.shape = "pngpng"   ->
                sSlash \o z \o sSlash \o x \o sSlash \o y \o sPNG \o sPNG

\* The request line "GET <path> HTTP/1.1" as the first read of a stream.
LineInput(path) == [ kind |-> "line", line |-> Join(<< sGET, path, sHTTP11 >>, sSpace) ]

InitPath ==
    /\ ServerInit
    /\ perf \in BOOLEAN
    /\ fphase = "path"
    /\ fparts \in [ shape : Shapes, z : ZSegs, x : XSegs, y : YSegs ]
    /\ farg = BuildPath(fparts)
    /\ ftile = NoTile
    /\ fsuffix = << >>
    /\ fret = 0

\* Lines 120-123 on a request for the path: the tile parsed, and whether the
\* handler goes on to the reader and the drawer or bails out.
CallRoute ==
    /\ fphase = "path"
    /\ fret' = [ tile |-> extract_tile_from_path(farg), route |-> RouteOf(LineInput(farg)) ]
    /\ fphase' = "path_done"
    /\ UNCHANGED << srvvars, farg, ftile, fsuffix, fparts >>

NextPath == CallRoute

SpecPath == InitPath /\ [][NextPath]_vars

\* serve_data on its own: worker 0 has received connection 1, read its request
\* and produced the body, and is about to call serve_data (lines 116, 139).
ServeBodies == { [ i \in 1..n |-> "b" ] : n \in (0..MaxBody) \cup { 100 } }

ServeInputs ==
    { [ kind |-> "line", line |-> Join(<< sGET, sTilePathQ, sHTTP11 >>, sSpace) ],
      [ kind |-> "line", line |-> Join(<< sGET, sPerfStats, sHTTP10 >>, sSpace) ] }

InitServe ==
    /\ FnIdle
    /\ perf \in BOOLEAN
    /\ lpc = "accept"
    /\ thread_id = 1 % NumWorkers
    /\ sendersOpen = TRUE
    /\ queue = [ w \in Workers |-> << >> ]
    /\ wpc = [ w \in Workers |-> IF w = 0 THEN "write_header" ELSE "recv" ]
    /\ cur = [ w \in Workers |-> IF w = 0 THEN 1 ELSE 0 ]
    /\ wdata \in { [ w \in Workers |-> IF w = 0 THEN b ELSE << >> ] : b \in ServeBodies }
    /\ lock = NoWorker
    /\ cin \in { [ c \in Conns |-> IF c = 1 THEN i ELSE NoInput ] :
                   i \in { j \in ServeInputs : RouteOf(j) \in { "stats", "tile" } } }
    /\ perfStats = IF perf /\ RouteOf(cin[1]) = "tile" THEN 1 ELSE 0
    /\ nAccepted = 1
    /\ cstate = [ c \in Conns |-> IF c = 1 THEN "handling" ELSE "unborn" ]
    /\ cres = [ c \in Conns |-> "none" ]
    /\ cout = [ c \in Conns |-> << >> ]
    /\ dest = [ c \in Conns |-> IF c = 1 THEN 0 ELSE NoWorker ]
    /\ started = [ w \in Workers |-> IF w = 0 THEN << 1 >> ELSE << >> ]
    /\ logged = 0

NextServe ==
    \/ WriteHeaderOk(0)
    \/ WriteHeaderErr(0)
    \/ WriteBodyOk(0)
    \/ WriteBodyErr(0)

SpecServe == InitServe /\ [][NextServe]_vars

-----------------------------------------------------------------------------
(* Claims about the parsers. *)

SpacesOf(s) == { i \in 1..Len(s) : s[i] = " " }

\* The request line is "GET", one space, a token without spaces, one space, and
\* "HTTP/1.1" or "HTTP/1.0".
WellFormedRequestLine(s) ==
    /\ Cardinality(SpacesOf(s)) = 2
    /\ LET i1 == CHOOSE i \in SpacesOf(s) : \A j \in SpacesOf(s) : i <= j
           i2 == CHOOSE i \in SpacesOf(s) : \A j \in SpacesOf(s) : j <= i
       IN /\ SubSeq(s, 1, i1 - 1) = sGET
          /\ SubSeq(s, i2 + 1, Len(s)) \in { sHTTP11, sHTTP10 }

MiddleToken(s) ==
    LET i1 == CHOOSE i \in SpacesOf(s) : \A j \in SpacesOf(s) : i <= j
        i2 == CHOOSE i \in SpacesOf(s) : \A j \in SpacesOf(s) : j <= i
    IN SubSeq(s, i1 + 1, i2 - 1)

\* C8: extract_path_from_request succeeds exactly on the lines that split on
\* single spaces into three tokens "GET", path, "HTTP/1.1" or "HTTP/1.0", and
\* then returns the path token unchanged; on every other line it fails.
C8_RequestLineIff ==
    fphase = "req_done" =>
        /\ fret.ok <=> WellFormedRequestLine(farg)
        /\ fret.ok => fret.path = MiddleToken(farg)

C8_Witness ==
    /\ fphase = "req_done"
    /\ fret.ok
    /\ fret.path = sTilePathQ
    /\ farg = Join(<< sGET, sTilePathQ, sHTTP10 >>, sSpace)

\* C9: a tile with zoom <= MAX_ZOOM, formatted as "/z/x/y.png" in base 10,
\* parses back to the same tile.
C9_RoundTrip ==
    (fphase = "tile_done" /\ fsuffix = << >> /\ ftile.zoom <= MAX_ZOOM) =>
        fret = SomeTile(ftile.zoom, ftile.x, ftile.y)

C9_Witness ==
    /\ fphase = "tile_done"
    /\ fsuffix = << >>
    /\ ftile = SomeTile(MAX_ZOOM, 65535, 10)
    /\ fret = ftile

\* C10: for zoom <= MAX_ZOOM, "/z/x/y.png?" followed by any string parses to
\* the same tile as "/z/x/y.png".
C10_QueryIgnored ==
    (fphase = "tile_done" /\ fsuffix # << >> /\ ftile.zoom <= MAX_ZOOM) =>
        fret = SomeTile(ftile.zoom, ftile.x, ftile.y)

-----------------------------------------------------------------------------
(* Claims about the server. *)

FailureKinds == { "read_error", "protocol_error", "route_miss" }

SlowStates == { "read", "lookup", "write_header", "write_body" }

\* C1: no failure of one connection terminates a worker thread or the accept
\* loop.
C1_FailuresConfined ==
    /\ \A w \in Workers : wpc[w] # "panicked"
    /\ lpc # "panicked"

SentCount(w) == Cardinality({ c \in Conns : dest[c] = w })

\* C2: the k-th accepted connection (k = 0, 1, ...) is sent to worker k mod P,
\* so after N accepts every worker has been sent floor(N/P) or ceil(N/P).
C2_RoundRobin ==
    /\ \A c \in Conns : c <= nAccepted => dest[c] = (c - 1) % NumWorkers
    /\ \A w \in Workers :
          \/ SentCount(w) = nAccepted \div NumWorkers
          \/ SentCount(w) = (nAccepted + NumWorkers - 1) \div NumWorkers

HasWork(w) == ReceiverAlive(w) /\ (wpc[w] # "recv" \/ queue[w] # << >>)

\* Worker w can take its next step: the guard of one of its actions holds. The
\* steps between the receive and the return wait for nothing but the lock.
Ready(w) ==
    \/ RecvReady(w)
    \/ LockReady(w)
    \/ wpc[w] \in SlowStates
    \/ wpc[w] \in { "stats_locked", "finish_locked" }

\* C3: a worker that has a connection queued or in hand can always take its
\* next step, whatever the other workers are doing, except while it waits for
\* the perf_stats lock; and the holder of that lock is then inside the locked
\* statement, never in a read, lookup, render or write, and can itself step.
C3_Isolation ==
    \A w \in Workers :
        HasWork(w) =>
            IF wpc[w] \in { "stats_lock", "finish_lock" } /\ lock # NoWorker
            THEN /\ lock # w
                 /\ wpc[lock] \in { "stats_locked", "finish_locked" }
                 /\ Ready(lock)
            ELSE Ready(w)

\* Connection 2 was served completely by its worker while the worker of
\* connection 1 is still inside a read, lookup, render or write.
C3_Witness ==
    /\ nAccepted >= 2
    /\ dest[1] # NoWorker
    /\ dest[2] # NoWorker
    /\ dest[1] # dest[2]
    /\ cur[dest[1]] = 1
    /\ wpc[dest[1]] \in SlowStates
    /\ cstate[2] = "closed"
    /\ cres[2] = "ok"
    /\ cout[2] = Header(sImagePng, 4) \o << "p", "n", "g", "1" >>

\* The connections sent to worker w, in the order they were sent.
SentTo(w) == SelectSeq([ i \in 1..MaxConns |-> i ], LAMBDA c : dest[c] = w)

IsPrefix(s, t) == Len(s) <= Len(t) /\ s = SubSeq(t, 1, Len(s))

\* C4: a worker receives its connections in the order they were sent to it, and
\* every connection it received before the latest one is closed.
C4_FifoOneAtATime ==
    \A w \in Workers :
        /\ IsPrefix(started[w], SentTo(w))
        /\ \A i \in 1..Len(started[w]) :
              IF i < Len(started[w])
              THEN cstate[started[w][i]] = "closed"
              ELSE \/ cstate[started[w][i]] = "closed" /\ cur[w] = 0
                   \/ cstate[started[w][i]] = "handling" /\ cur[w] = started[w][i]

\* A worker is handling its second connection while a third one waits.
C4_Witness ==
    \E w \in Workers :
        /\ Len(started[w]) = 2
        /\ cur[w] = started[w][2]
        /\ cstate[started[w][1]] = "closed"

\* Two connections wait in one queue.
C4_TwoQueued == \E w \in Workers : Len(queue[w]) >= 2

\* C5: no connection that was dispatched to a worker is dropped without being
\* handled.
C5_DispatchedAreHandled ==
    \A c \in Conns : dest[c] # NoWorker => cstate[c] \in { "queued", "handling", "closed" }

\* The handling of input fails before a body is produced.
FailsBeforeBody(input) ==
    \/ input.kind = "eof"
    \/ /\ input.kind = "line"
       /\ \/ ~WellFormedRequestLine(input.line)
          \/ /\ WellFormedRequestLine(input.line)
             /\ ~(perf /\ MiddleToken(input.line) = sPerfStats)
             /\ ~extract_tile_from_path(MiddleToken(input.line)).some

StartsLikeStatusLine(out) ==
    \A i \in 1..Len(out) : i <= Len(sStatusLine) => out[i] = sStatusLine[i]

\* C6: a connection whose handling fails before a body is produced gets zero
\* bytes, and whatever is written to a connection starts with the status line
\* "HTTP/1.1 200 OK".
C6_SilentFailure ==
    \A c \in Conns :
        /\ (cstate[c] = "closed" /\ FailsBeforeBody(cin[c])) => cout[c] = << >>
        /\ StartsLikeStatusLine(cout[c])

\* A route miss, a protocol error and a read error were closed with no bytes.
C6_Witness ==
    \E c \in Conns :
        /\ cstate[c] = "closed"
        /\ cin[c] = [ kind |-> "line", line |-> Join(<< sGET, sBadPath, sHTTP11 >>, sSpace) ]
        /\ cres[c] = "route_miss"
        /\ cout[c] = << >>
        /\ \E d \in Conns : cstate[d] = "closed" /\ cres[d] = "ok" /\ cout[d] # << >>

\* C7: the step in which the handling of a connection fails with a read error,
\* a protocol error or a route miss returns the worker to its receive loop and
\* changes neither the aggregate, the lock, the round-robin index, the listener,
\* any queue, any other worker nor any other connection.
C7_FailureFrame ==
    [][ \A w \in Workers :
          ( /\ cur[w] # 0
            /\ cres[cur[w]] = "none"
            /\ cres'[cur[w]] \in FailureKinds )
          => /\ wpc'[w] = "recv"
             /\ cur'[w] = 0
             /\ perfStats' = perfStats
             /\ lock' = lock
             /\ thread_id' = thread_id
             /\ lpc' = lpc
             /\ sendersOpen' = sendersOpen
             /\ queue' = queue
             /\ \A v \in Workers \ { w } :
                   wpc'[v] = wpc[v] /\ cur'[v] = cur[v] /\ wdata'[v] = wdata[v]
             /\ \A c \in Conns \ { cur[w] } :
                   cstate'[c] = cstate[c] /\ cout'[c] = cout[c] /\ cres'[c] = cres[c]
      ]_vars

\* After a failed connection, the same worker served a later one completely.
C7_Witness ==
    \E c1 \in Conns, c2 \in Conns :
        /\ c1 < c2
        /\ dest[c1] = dest[c2]
        /\ dest[c1] # NoWorker
        /\ cres[c1] \in FailureKinds
        /\ cres[c2] = "ok"
        /\ cout[c2] = Header(sImagePng, 4) \o << "p", "n", "g", "1" >>

-----------------------------------------------------------------------------
(* Claims about tile addresses. *)

\* The number a segment denotes: decimal digits, possibly after a '+' or a
\* zero; -1 when it denotes none.
NatOf(seg) ==
    LET ns == { n \in 0..999 :
                  seg \in { ToDec(n), << "+" >> \o ToDec(n), << "0" >> \o ToDec(n) } }
    IN IF ns = {} THEN -1 ELSE CHOOSE n \in ns : TRUE

RegularShapes == { "plain", "noext", "prefix", "nolead" }

\* C11: the handler goes on to the reader and the drawer only with a tile whose
\* zoom is at most MAX_ZOOM, and bails out on no match; a zoom segment that is
\* missing, is no non-negative integer or exceeds MAX_ZOOM gives no match; with
\* a zoom in 0..MAX_ZOOM any x and y give a tile, also x or y >= 2^zoom.
C11_ZoomBound ==
    fphase = "path_done" =>
        /\ fret.route = "tile" => (fret.tile.some /\ fret.tile.zoom <= MAX_ZOOM)
        /\ ~fret.tile.some => fret.route = "route_miss"
        /\ fparts.shape = "two" => ~fret.tile.some
        /\ ( /\ fparts.shape \in RegularShapes
             /\ (NatOf(fparts.z) = -1 \/ NatOf(fparts.z) > MAX_ZOOM) )
           => ~fret.tile.some
        /\ ( /\ fparts.shape \in RegularShapes
             /\ NatOf(fparts.z) \in 0..MAX_ZOOM
             /\ NatOf(fparts.x) >= 0
             /\ NatOf(fparts.y) >= 0 )
           => /\ fret.tile = SomeTile(NatOf(fparts.z), NatOf(fparts.x), NatOf(fparts.y))
              /\ fret.route = "tile"

\* "/0/40/777.png": zoom 0 with x and y far beyond 2^0 is routed to the drawer.
C11_Witness ==
    /\ fphase = "path_done"
    /\ fparts = [ shape |-> "plain", z |-> << "0" >>, x |-> << "4", "0" >>,
                  y |-> << "7", "7", "7" >> ]
    /\ fret.tile = SomeTile(0, 40, 777)
    /\ fret.route = "tile"

ValidParts ==
    /\ NatOf(fparts.z) \in 0..MAX_ZOOM
    /\ NatOf(fparts.x) >= 0
    /\ NatOf(fparts.y) >= 0

PartsTile == SomeTile(NatOf(fparts.z), NatOf(fparts.x), NatOf(fparts.y))

\* C14 as stated: empty segments are skipped, so "/z/x/y/" and "/z//x/y.png"
\* parse to the tile {z, x, y}, and prefix segments are ignored.
C14_EmptySegmentsSkipped ==
    ( /\ fphase = "path_done"
      /\ fparts.shape \in { "trailing", "doubled", "prefix" }
      /\ ValidParts )
    => fret.tile = PartsTile

\* C14 as amended: the three rightmost '/'-separated segments are taken, empty
\* ones included: a trailing or doubled '/' puts an empty segment among them
\* and gives no match; prefix segments left of the last three are ignored.
C14_RightmostThree ==
    fphase = "path_done" =>
        /\ fparts.shape \in { "trailing", "doubled" } => ~fret.tile.some
        /\ (fparts.shape = "prefix" /\ ValidParts) => fret.tile = PartsTile

\* "/5/10/12/" gives no match, and so does "/5//10/12.png".
C14_Witness ==
    /\ fphase = "path_done"
    /\ fparts.shape \in { "trailing", "doubled" }
    /\ fparts.z = << "5" >>
    /\ fparts.x = << "1", "0" >>
    /\ fparts.y = << "1", "2" >>
    /\ ~fret.tile.some

\* C15 as stated: only one ".png" is stripped, so "/z/x/y.png.png" gives no match.
C15_StripsOnce ==
    (fphase = "path_done" /\ fparts.shape = "pngpng") => ~fret.tile.some

\* C15 as amended: every trailing repetition of ".png" is stripped, so
\* "/z/x/y.png.png" parses to the tile {z, x, y}.
C15_StripsRepeated ==
    (fphase = "path_done" /\ fparts.shape = "pngpng" /\ ValidParts)
    => fret.tile = PartsTile

C15_Witness ==
    /\ fphase = "path_done"
    /\ fparts = [ shape |-> "pngpng", z |-> << "5" >>, x |-> << "1", "0" >>,
                  y |-> << "1", "2" >> ]
    /\ fret.tile = SomeTile(5, 10, 12)

-----------------------------------------------------------------------------
(* Claims about the response. *)

ResponseHead ==
    << "H", "T", "T", "P", "/", "1", ".", "1", " ", "2", "0", "0", " ", "O", "K",
       "\r", "\n",
       "C", "o", "n", "t", "e", "n", "t", "-", "T", "y", "p", "e", ":", " " >>

ResponseMid ==
    << "\r", "\n",
       "C", "o", "n", "t", "e", "n", "t", "-", "L", "e", "n", "g", "t", "h", ":", " " >>

ResponseTail ==
    << "\r", "\n",
       "C", "o", "n", "n", "e", "c", "t", "i", "o", "n", ":", " ",
       "c", "l", "o", "s", "e", "\r", "\n", "\r", "\n" >>

\* The canonical decimal numerals of n: digits only, no leading zero.
IsNumeralOf(d, n) ==
    /\ Len(d) >= 1
    /\ \A i \in 1..Len(d) : d[i] \in { "0", "1", "2", "3", "4", "5", "6", "7", "8", "9" }
    /\ (Len(d) > 1 => d[1] # "0")
    /\ ParseUInt(d) = n

\* out is the header for content type t and a body of n bytes.
IsHeaderFor(out, t, n) ==
    LET a == Len(ResponseHead) + Len(t) + Len(ResponseMid)
        b == Len(out) - Len(ResponseTail)
    IN /\ b > a
       /\ SubSeq(out, 1, a) = ResponseHead \o t \o ResponseMid
       /\ IsNumeralOf(SubSeq(out, a + 1, b), n)
       /\ SubSeq(out, b + 1, Len(out)) = ResponseTail

StatsRequest ==
    [ kind |-> "line",
      line |-> << "G", "E", "T", " ", "/", "p", "e", "r", "f", "_", "s", "t", "a",
                  "t", "s", " ", "H", "T", "T", "P", "/", "1", ".", "0" >> ]

TypeFor(input) ==
    IF input = StatsRequest
    THEN << "t", "e", "x", "t", "/", "h", "t", "m", "l" >>
    ELSE << "i", "m", "a", "g", "e", "/", "p", "n", "g" >>

\* C12: when the header write succeeds the connection holds exactly the header
\* with the content type of the request and the body's length, and when the
\* body write succeeds too it holds that header followed by the body bytes and
\* nothing else.
C12_ExactResponse ==
    [][ \A w \in Workers :
          LET c == cur[w]
              body == wdata[w]
          IN /\ (wpc[w] = "write_header" /\ wpc'[w] = "write_body")
                => IsHeaderFor(cout'[c], TypeFor(cin[c]), Len(body))
             /\ ( /\ wpc[w] = "write_body"
                  /\ wpc'[w] # "write_body"
                  /\ Len(cout'[c]) = Len(cout[c]) + Len(body) )
                => /\ IsHeaderFor(cout[c], TypeFor(cin[c]), Len(body))
                   /\ cout'[c] = cout[c] \o body ]_vars

\* A complete response with a body of 100 bytes has been written.
C12_Witness ==
    /\ cstate[1] = "closed"
    /\ cres[1] = "ok"
    /\ Len(cout[1]) = Len(ResponseHead) + 9 + Len(ResponseMid) + 3 + Len(ResponseTail) + 100
    /\ IsHeaderFor(SubSeq(cout[1], 1, Len(cout[1]) - 100), TypeFor(cin[1]), 100)

\* The complete response to a report request: the header for text/html and a
\* report of the aggregate.
StatsResponses ==
    { ResponseHead \o << "t", "e", "x", "t", "/", "h", "t", "m", "l" >> \o ResponseMid
        \o ToDec(Len(to_html(k))) \o ResponseTail \o to_html(k) : k \in 0..MaxConns }

\* C13: with instrumentation a request for "/perf_stats" goes from the read to
\* the report and to serve_data, never to the lookup, the render or the tile
\* record, and what it gets is a prefix of the text/html response with the
\* report; without instrumentation it is closed as an unmatched path with zero
\* response bytes.
C13_PerfStatsRouting ==
    \A c \in Conns :
        cin[c] = StatsRequest =>
            IF perf
            THEN /\ cres[c] \in { "none", "ok" }
                 /\ \A w \in Workers :
                       cur[w] = c =>
                          /\ wpc[w] \in { "stats_lock", "stats_locked",
                                          "write_header", "write_body" }
                          /\ wpc[w] \in { "write_header", "write_body" }
                             => \E k \in 0..MaxConns : wdata[w] = to_html(k)
                 /\ \E r \in StatsResponses : IsPrefix(cout[c], r)
                 /\ (cstate[c] = "closed" /\ Len(cout[c]) > Len(ResponseHead))
                    => \E r \in StatsResponses :
                          \E n \in 0..Len(to_html(0)) :
                             cout[c] = SubSeq(r, 1, Len(r) - n)
            ELSE /\ cstate[c] = "closed"
                 /\ cres[c] = "route_miss"
                 /\ cout[c] = << >>

\* With instrumentation a report request got the complete text/html response.
C13_Witness ==
    /\ perf
    /\ \E c \in Conns :
          /\ cin[c] = StatsRequest
          /\ cstate[c] = "closed"
          /\ cres[c] = "ok"
          /\ cout[c] \in StatsResponses

-----------------------------------------------------------------------------
(* Claims about connections, the aggregate and its lock. *)

InQueue(c) == { << w, i >> \in Workers \X (1..MaxConns) : i <= Len(queue[w]) /\ queue[w][i] = c }

HandledBy(c) == { w \in Workers : cur[w] = c }

StartedAt(c) ==
    { << w, i >> \in Workers \X (1..(2 * MaxConns)) : i <= Len(started[w]) /\ started[w][i] = c }

GoneStates == { "closed", "lost", "dropped" }

StatusLines(out) ==
    { i \in 1..Len(out) :
        /\ i + 14 <= Len(out)
        /\ SubSeq(out, i, i + 14) = << "H", "T", "T", "P", "/", "1", ".", "1", " ",
                                       "2", "0", "0", " ", "O", "K" >> }

\* C16: an accepted connection is in the queue of the worker it was sent to, or
\* in the hands of that worker, or closed, and in one of these only; it is
\* received at most once; it carries at most one response; it is closed exactly
\* when its handling has ended in a response or a failure.
C16_SingleOwner ==
    \A c \in Conns :
        IF c > nAccepted
        THEN /\ cstate[c] = "unborn"
             /\ InQueue(c) = {}
             /\ HandledBy(c) = {}
             /\ StartedAt(c) = {}
             /\ cout[c] = << >>
        ELSE /\ cstate[c] \in { "queued", "handling" } \cup GoneStates
             /\ cstate[c] = "queued"
                <=> (Cardinality(InQueue(c)) = 1 /\ \A q \in InQueue(c) : q[1] = dest[c])
             /\ cstate[c] = "handling" <=> HandledBy(c) = { dest[c] }
             /\ cstate[c] \in GoneStates <=> (InQueue(c) = {} /\ HandledBy(c) = {})
             /\ Cardinality(InQueue(c)) + Cardinality(HandledBy(c)) <= 1
             /\ Cardinality(StartedAt(c)) <= 1
             /\ \A q \in StartedAt(c) : q[1] = dest[c]
             /\ (StartedAt(c) = {} => cout[c] = << >> /\ cres[c] = "none")
             /\ Cardinality(StatusLines(cout[c])) <= 1
             /\ (cout[c] # << >> => StartsLikeStatusLine(cout[c]))
             /\ (cres[c] # "none" <=> (cstate[c] = "closed"))

\* One connection has its complete response and is closed, another is in the
\* hands of a worker, a third waits in a queue.
C16_Witness ==
    /\ \E c \in Conns :
          /\ cstate[c] = "closed"
          /\ cres[c] = "ok"
          /\ Cardinality(StatusLines(cout[c])) = 1
          /\ Len(cout[c]) > Len(ResponseHead) + Len(ResponseMid) + Len(ResponseTail)
    /\ \E c \in Conns : cstate[c] = "handling" /\ cur[dest[c]] = c
    /\ \E c \in Conns : cstate[c] = "queued" /\ InQueue(c) # {}

\* The connections whose tile was rendered and recorded: they are past the
\* render and the tile record, in serve_data or closed after it.
Recorded(c) ==
    /\ cin[c].kind = "line"
    /\ cin[c] # StatsRequest
    /\ \/ cstate[c] = "closed" /\ cres[c] = "ok"
       \/ \E w \in Workers : cur[w] = c /\ wpc[w] \in { "write_header", "write_body" }

\* C17: the aggregate counts exactly the connections whose tile was rendered,
\* and nothing without instrumentation; it changes only in a step of the
\* worker that holds the lock, by one, for a tile request past its render.
C17_AggregateDiscipline ==
    /\ [](perfStats = IF perf THEN Cardinality({ c \in Conns : Recorded(c) }) ELSE 0)
    /\ [][ perfStats' # perfStats =>
             /\ perf
             /\ lock \in Workers
             /\ wpc[lock] = "finish_locked"
             /\ wpc'[lock] # "finish_locked"
             /\ cin[cur[lock]].kind = "line"
             /\ cin[cur[lock]] # StatsRequest
             /\ perfStats' = perfStats + 1 ]_vars

\* With instrumentation: a failed connection, a served report and a served tile,
\* and the aggregate holds one tile.
C17_Witness ==
    /\ perf
    /\ perfStats = 1
    /\ \E c \in Conns : cstate[c] = "closed" /\ cres[c] \in FailureKinds
    /\ \E c \in Conns : cstate[c] = "closed" /\ cres[c] = "ok" /\ cin[c] = StatsRequest
    /\ \E c \in Conns : cstate[c] = "closed" /\ cres[c] = "ok" /\ cin[c] # StatsRequest

\* C18: a failed header write leaves less than a header on the connection and
\* no body byte; after a failed header write and after any body write, failed
\* or not, the connection is closed with the handler's result Ok, nothing is
\* logged and the worker is back at its receive.
C18_WriteFailuresSwallowed ==
    [][ \A w \in Workers :
          LET c == cur[w]
          IN /\ (wpc[w] = "write_header" /\ wpc'[w] \notin { "write_header", "write_body" })
                => /\ Len(cout'[c]) < Len(ResponseHead)
                   /\ IsPrefix(cout'[c], ResponseHead)
                   /\ cstate'[c] = "closed"
                   /\ cres'[c] = "ok"
                   /\ logged' = logged
                   /\ wpc'[w] = "recv"
             /\ (wpc[w] = "write_body" /\ wpc'[w] # "write_body")
                => /\ IsPrefix(cout[c], cout'[c])
                   /\ IsPrefix(SubSeq(cout'[c], Len(cout[c]) + 1, Len(cout'[c])), wdata[w])
                   /\ cstate'[c] = "closed"
                   /\ cres'[c] = "ok"
                   /\ logged' = logged
                   /\ wpc'[w] = "recv" ]_vars

\* A worker whose first connection broke in the header write has received its
\* next one; another connection broke in the body write, after the header and
\* three of the four body bytes; nothing was logged.
C18_Witness ==
    /\ logged = 0
    /\ \E w \in Workers :
          /\ Len(started[w]) >= 2
          /\ cstate[started[w][1]] = "closed"
          /\ cres[started[w][1]] = "ok"
          /\ Len(cout[started[w][1]]) = 3
          /\ cur[w] = started[w][2]
    /\ \E d \in Conns :
          /\ cstate[d] = "closed"
          /\ cres[d] = "ok"
          /\ Len(cout[d]) > 3
          /\ IsHeaderFor(SubSeq(cout[d], 1, Len(cout[d]) - 3), TypeFor(cin[d]), 4)

LockedStates == { "stats_locked", "finish_locked" }

WaitingStates == { "stats_lock", "finish_lock" }

\* C19: a worker is inside a locked statement exactly when it holds the lock,
\* so no two workers are and the holder is never in a read, a lookup, a render
\* or a write; the holder's next step releases the lock and waits for nothing,
\* so some worker can step whenever a worker waits for the lock.
C19_LockDiscipline ==
    /\ lock \in Workers \cup { NoWorker }
    /\ \A w \in Workers : wpc[w] \in LockedStates <=> lock = w
    /\ Cardinality({ w \in Workers : wpc[w] \in LockedStates }) <= 1
    /\ lock # NoWorker => wpc[lock] \notin SlowStates \cup WaitingStates \cup { "recv" }
    /\ \A w \in Workers :
          wpc[w] \in WaitingStates =>
             \/ LockReady(w)
             \/ lock # w /\ wpc[lock] \in LockedStates

\* One worker holds the lock and another waits for it.
C19_Witness ==
    \E w, v \in Workers :
        /\ w # v
        /\ lock = w
        /\ wpc[w] \in LockedStates
        /\ wpc[v] \in WaitingStates

\* C20: until the bind the workers wait at their receive; after a failed bind
\* no connection was ever accepted, sent or received, the senders are gone, and
\* each worker has left its loop or its receive is about to return the error.
C20_BindFailure ==
    /\ lpc = "bind" =>
          /\ nAccepted = 0
          /\ \A w \in Workers : wpc[w] = "recv" /\ queue[w] = << >>
    /\ lpc = "bind_failed" =>
          /\ nAccepted = 0
          /\ ~sendersOpen
          /\ \A c \in Conns : cstate[c] = "unborn" /\ dest[c] = NoWorker
          /\ \A w \in Workers :
                /\ queue[w] = << >>
                /\ started[w] = << >>
                /\ cur[w] = 0
                /\ \/ wpc[w] = "exited"
                   \/ wpc[w] = "recv" /\ ~RecvReady(w)

\* The bind failed and every worker has left its loop.
C20_Witness ==
    /\ lpc = "bind_failed"
    /\ \A w \in Workers : wpc[w] = "exited" /\ started[w] = << >>

====
